---- MODULE Spec2Model ----
(***************************************************************************)
(* Model of the portfolio site's ThemeManager (theme.js): the resolution   *)
(* of the theme at construction, applyTheme and its effects on the         *)
(* document, localStorage and the toggle button, the toggle, setTheme and  *)
(* the prefers-color-scheme change listener; and of the PortfolioApp        *)
(* (js/main.js) that announces theme changes to screen readers; and of the *)
(* NavbarComponent (navbar.js): the header's scroll effects, debounced by  *)
(* animation frames, and the highlighting of the active nav link.  Every   *)
(* handler is one atomic action: the browser runs each callback to         *)
(* completion.                                                             *)
(***************************************************************************)
EXTENDS Integers, Sequences, FiniteSets, TLC

\* ------------------------------------------------------------- bounds
MaxEvents == 4      \* themeChanged events dispatched in one run
MaxTimers == 2      \* press-animation timeouts pending at once
MaxFrames == 2      \* animation-frame callbacks pending at once
MaxEntries == 2     \* entries one IntersectionObserver callback reports

\* ------------------------------------------------------------- values
null == "<null>"        \* JavaScript null: no item, no attribute, no element
Throw == "<throw>"      \* localStorage access raising an exception

\* What localStorage may hold under the key "theme" when the page loads:
\* nothing, a value this program wrote, or a string written by anything
\* else of the same origin (the empty string is falsy in JavaScript).
StoredValues == {null, "light", "dark", "", "blue", "toString"}
\* The arguments setTheme is called with.
SetThemeArgs == {"light", "dark", "blue", ""}
\* localStorage: usable, readable but refusing writes (quota), or refusing
\* every access (storage disabled).
AccessModes == {"ok", "readonly", "denied"}
Keys == {"Enter", " ", "Tab"}

Truthy(v) == v # null /\ v # ""

VARIABLES
    phase,          \* "pre": before new ThemeManager(); "run" after; "crashed" if the constructor threw
    storage,        \* localStorage item "theme" (null when there is none)
    storageAccess,  \* how localStorage answers, fixed for the page's life
    osDark,         \* matchMedia("(prefers-color-scheme: dark)").matches
    hasMatchMedia,  \* window.matchMedia exists
    hasToggle,      \* document.getElementById("theme-toggle") found an element
    currentTheme,   \* this.currentTheme
    dataTheme,      \* documentElement's data-theme attribute
    metaExists,     \* a meta[name="theme-color"] element is in the document
    metaContent,    \* its content attribute
    metaCreated,    \* how many such elements the manager created
    ariaLabel,      \* the toggle button's aria-label
    transform,      \* the toggle button's style.transform
    timers,         \* pending press-animation timeouts
    mediaListener,  \* the change listener on the media query is registered
    events,         \* themeChanged events dispatched, oldest first (detail.theme)
    warnings,       \* console.warn calls made by the storage wrappers
    heard,          \* what a themeChanged listener saw at the last dispatch
    appState,       \* PortfolioApp: "none" (main.js not run), "waiting" for DOMContentLoaded, "loaded"
    isLoaded,       \* PortfolioApp's this.isLoaded
    domLoadedRuns,  \* how many times onDOMLoaded() has run
    appSteps,       \* the init steps onDOMLoaded() has completed, in order
    announcements,  \* the aria-live elements in document.body, oldest first
    announced,      \* how many such elements were ever appended
    navPhase,       \* "pre": before new NavbarComponent(); "run" after
    hasHeader,      \* document.querySelector('.header') found an element
    hasSections,    \* the document has section[id] elements
    scrollY,        \* window.scrollY
    lastScrollY,    \* this.lastScrollY
    ticking,        \* initScrollEffects' ticking flag
    frames,         \* requestAnimationFrame(updateHeader) callbacks pending
    scrollListeners,\* the listeners of window's scroll event
    scrolled,       \* the header carries the class 'scrolled'
    headerTransform,\* the header's style.transform
    active,         \* the nav links that carry the class 'active'
    observing,      \* the IntersectionObserver watches the sections
    destroyed,      \* history: destroy() has been called
    navLast,        \* history: the last navbar handler that ran
    navPre,         \* history: the navbar's state before navLast
    written,        \* history: the values setItem has stored under "theme"
    explicitChoice, \* history: the user has activated the toggle control
    startStored,    \* history: what storage held when the manager was constructed
    lastOp,         \* history: the last handler that ran
    prevOp,         \* history: the handler before it
    pre,            \* history: the observable state before lastOp
    pre2            \* history: the observable state before prevOp

envVars == <<storageAccess, hasMatchMedia, hasToggle>>
vars == <<phase, storage, storageAccess, osDark, hasMatchMedia, hasToggle,
          currentTheme, dataTheme, metaExists, metaContent, metaCreated,
          ariaLabel, transform, timers, mediaListener, events, warnings,
          heard, appState, isLoaded, domLoadedRuns, appSteps, announcements,
          announced, written, explicitChoice, startStored, lastOp, prevOp, pre,
          pre2, navPhase, hasHeader, hasSections, scrollY, lastScrollY, ticking,
          frames, scrollListeners, scrolled, headerTransform, active, observing,
          destroyed, navLast, navPre>>

\* The NavbarComponent's state and the part of the page it works on.
navVars ==
    <<navPhase, hasHeader, hasSections, scrollY, lastScrollY, ticking, frames,
      scrollListeners, scrolled, headerTransform, active, observing, destroyed,
      navLast, navPre>>

\* PortfolioApp's own state.
appVars == <<appState, isLoaded, domLoadedRuns, appSteps>>

\* The state an observer of the page sees between two callbacks.
View ==
    [currentTheme |-> currentTheme, dataTheme |-> dataTheme,
     metaContent |-> metaContent, ariaLabel |-> ariaLabel,
     storage |-> storage, nEvents |-> Len(events), osDark |-> osDark,
     appLoaded |-> appState = "loaded", nAnnounced |-> announced,
     nPending |-> Len(announcements)]

\* No themeChanged event has been dispatched yet.
NoEvent ==
    [theme |-> null, currentTheme |-> null, dataTheme |-> null,
     metaContent |-> null, storage |-> null, ariaLabel |-> null]

NoOp == [op |-> "none", arg |-> null, applied |-> null]

\* op ran with argument arg and called applyTheme(applied) (null: no call).
Record(op, arg, applied) ==
    /\ lastOp' = [op |-> op, arg |-> arg, applied |-> applied]
    /\ prevOp' = lastOp
    /\ pre' = View
    /\ pre2' = pre

\* The page before theme.js and main.js have run.
PageInit ==
    /\ phase = "pre"
    /\ storage \in StoredValues
    /\ storageAccess \in AccessModes
    /\ osDark \in BOOLEAN
    /\ hasMatchMedia \in BOOLEAN
    /\ hasToggle \in BOOLEAN
    /\ currentTheme = null
    /\ dataTheme = null
    /\ metaExists \in BOOLEAN
    /\ metaContent = IF metaExists THEN "#ffffff" ELSE null
    /\ metaCreated = 0
    /\ ariaLabel \in (IF hasToggle THEN {null, "Alternar tema"} ELSE {null})
    /\ transform = null
    /\ timers = 0
    /\ mediaListener = FALSE
    /\ events = <<>>
    /\ warnings = 0
    /\ heard = NoEvent
    /\ appState = "none"
    /\ isLoaded = FALSE
    /\ domLoadedRuns = 0
    /\ appSteps = <<>>
    /\ announcements = <<>>
    /\ announced = 0
    /\ written = {}
    /\ explicitChoice = FALSE
    /\ startStored = null
    /\ lastOp = NoOp
    /\ prevOp = NoOp
    /\ pre = View
    /\ pre2 = View

\* ------------------------------------------------------ navbar values
scrollThreshold == 100  \* this.scrollThreshold
ScrolledAbove == 50     \* currentScrollY > 50: the header gets 'scrolled'
HideAbove == 200        \* currentScrollY > 200: scrolling down hides the header

\* The scroll offsets the window is seen at: the top, and one offset in
\* each range the thresholds cut, two in the last.
ScrollPositions == {0, 60, 150, 250, 300}

\* The .nav__link elements in document order, each with its own href.
navLinks == <<"link1", "link2", "link3">>
Links == {navLinks[i] : i \in 1..Len(navLinks)}
href(link) ==
    CASE link = "link1" -> "#sobre"
      [] link = "link2" -> "#projetos"
      [] link = "link3" -> "#contato"

\* The ids of the section[id] elements; "extra" has no nav link.
Sections == {"sobre", "projetos", "contato", "extra"}

undefined == "<undefined>"  \* a property that was never assigned
unset == 0 - 1              \* this.lastScrollY before the constructor runs

NavView ==
    [scrollY |-> scrollY, lastScrollY |-> lastScrollY, frames |-> frames,
     ticking |-> ticking, scrolled |-> scrolled,
     headerTransform |-> headerTransform, active |-> active]

NavRecord(op, arg) ==
    /\ navLast' = [op |-> op, arg |-> arg]
    /\ navPre' = NavView

\* The page before navbar.js has run, for a header and sections that may
\* be missing, any scroll offset and at most one link marked in the HTML.
NavInit ==
    /\ navPhase = "pre"
    /\ hasHeader \in BOOLEAN
    /\ hasSections \in BOOLEAN
    /\ scrollY \in ScrollPositions
    /\ lastScrollY = unset
    /\ ticking = FALSE
    /\ frames = 0
    /\ scrollListeners = {}
    /\ scrolled = FALSE
    /\ headerTransform = null
    /\ active \in {{}} \cup {{l} : l \in Links}
    /\ observing = FALSE
    /\ destroyed = FALSE
    /\ navLast = [op |-> "none", arg |-> null]
    /\ navPre = NavView

\* A page without navbar.js.
NavAbsent ==
    /\ NavInit
    /\ ~hasHeader
    /\ ~hasSections
    /\ scrollY = 0
    /\ active = {}

Init == PageInit /\ NavAbsent

\* ------------------------------------------------ localStorage wrappers
\* localStorage.getItem("theme"): the item, or an exception.
getItem == IF storageAccess = "denied" THEN Throw ELSE storage

\* Mutant: no try/catch, the exception reaches the caller.
getStoredTheme_NoCatch == getItem

\* getStoredTheme(): the try/catch turns an exception into null.
getStoredTheme == IF getItem = Throw THEN null ELSE getItem

\* console.warn calls getStoredTheme() makes.
getStoredWarns == IF getItem = Throw THEN 1 ELSE 0

\* localStorage.setItem("theme", theme): the item afterwards, or an exception.
setItem(theme) == IF storageAccess = "ok" THEN theme ELSE Throw

\* Mutant: the item is removed instead of written when the theme is the
\* system's own, so that the page goes back to following the system.
storeTheme_ClearsDefault(theme) ==
    IF setItem(theme) = Throw THEN storage
    ELSE IF theme = (IF hasMatchMedia /\ osDark THEN "dark" ELSE "light") THEN null
    ELSE setItem(theme)

\* Mutant: an item already stored is never overwritten.
storeTheme_KeepExisting(theme) ==
    IF setItem(theme) = Throw \/ storage # null THEN storage ELSE setItem(theme)

\* storeTheme(theme): the item afterwards; a failed write leaves it as it was.
storeTheme(theme) == IF setItem(theme) = Throw THEN storage ELSE setItem(theme)

\* console.warn calls storeTheme(theme) makes.
storeWarns(theme) == IF setItem(theme) = Throw THEN 1 ELSE 0

\* ------------------------------------------------------ pure helpers
\* Mutant: the test of .matches inverted.
getSystemTheme_Inverted == IF hasMatchMedia /\ ~osDark THEN "dark" ELSE "light"

\* Mutant: .matches is trusted without the test for window.matchMedia.
getSystemTheme_NoGuard == IF osDark THEN "dark" ELSE "light"

getSystemTheme == IF hasMatchMedia /\ osDark THEN "dark" ELSE "light"

\* colors[theme]: a property lookup on an object literal, so a name that
\* Object.prototype defines yields that member and any other name undefined.
colors(theme) ==
    CASE theme = "light" -> "#ffffff"
      [] theme = "dark" -> "#0f172a"
      [] theme = "toString" -> "function toString() { [native code] }"
      [] OTHER -> null

\* colors[theme] || colors.light
metaColor(theme) == IF Truthy(colors(theme)) THEN colors(theme) ELSE colors("light")

\* The label updateToggleLabel() computes from this.currentTheme.
toggleLabel(cur) == IF cur = "dark" THEN "Ativar modo claro" ELSE "Ativar modo escuro"

\* Mutant: the label is computed from the theme that was current before.
updateToggleLabel_Stale(cur) == IF hasToggle THEN toggleLabel(currentTheme) ELSE ariaLabel

\* Mutant: no test for the toggle element.
updateToggleLabel_NoGuard(cur) == toggleLabel(cur)

\* The aria-label after updateToggleLabel(): untouched without a toggle.
updateToggleLabel(cur) == IF hasToggle THEN toggleLabel(cur) ELSE ariaLabel

\* Mutant: the operands of || swapped, so the system theme always wins.
initialTheme_SystemFirst == IF Truthy(getSystemTheme) THEN getSystemTheme ELSE getStoredTheme

\* this.getStoredTheme() || this.getSystemTheme()
initialTheme == IF Truthy(getStoredTheme) THEN getStoredTheme ELSE getSystemTheme

\* Mutant: the branches of the conditional swapped, so the theme never flips.
newTheme_NoFlip == IF currentTheme = "dark" THEN "dark" ELSE "light"

\* this.currentTheme === "dark" ? "light" : "dark"
newTheme == IF currentTheme = "dark" THEN "light" ELSE "dark"

\* Mutant: the listener applies every change, stored preference or not.
followsSystem_Always == TRUE

\* !this.getStoredTheme(): the change listener's test for following the system.
followsSystem == ~Truthy(getStoredTheme)

\* Mutant: the event is dispatched before the theme is stored and the
\* label updated.
atDispatch_BeforeStore(theme) ==
    [theme |-> theme, currentTheme |-> currentTheme', dataTheme |-> dataTheme',
     metaContent |-> metaContent', storage |-> storage, ariaLabel |-> ariaLabel]

\* What a listener of themeChanged finds when document.dispatchEvent calls
\* it: the dispatch is applyTheme's last statement, so everything is set.
atDispatch(theme) ==
    [theme |-> theme, currentTheme |-> currentTheme', dataTheme |-> dataTheme',
     metaContent |-> metaContent', storage |-> storage', ariaLabel |-> ariaLabel']

\* Mutant: the listener tests e.detail instead of e.detail.theme.
themeMessage_IgnoresPayload(theme) == "Tema alterado para modo claro"

\* The text PortfolioApp's themeChanged listener announces.
themeMessage(theme) ==
    IF theme = "dark" THEN "Tema alterado para modo escuro"
                      ELSE "Tema alterado para modo claro"

\* document.body's aria-live elements after themeChanged was dispatched:
\* the listener initAccessibility() registered appends one element.
announceToScreenReader(theme) ==
    IF appState = "loaded"
      THEN Append(announcements, [id |-> announced + 1, text |-> themeMessage(theme)])
      ELSE announcements

\* ------------------------------------------------------------ actions
\* Mutant: an apply of the theme already current dispatches no event.
applyTheme_SkipSame(theme, w) ==
    /\ currentTheme' = theme
    /\ dataTheme' = theme
    /\ metaExists' = TRUE
    /\ metaCreated' = IF metaExists THEN metaCreated ELSE metaCreated + 1
    /\ metaContent' = metaColor(theme)
    /\ storage' = storeTheme(theme)
    /\ warnings' = w + storeWarns(theme)
    /\ written' = IF setItem(theme) = Throw THEN written ELSE written \cup {theme}
    /\ ariaLabel' = updateToggleLabel(theme)
    /\ events' = IF theme = currentTheme THEN events ELSE Append(events, theme)
    /\ heard' = IF theme = currentTheme THEN heard ELSE atDispatch(theme)
    /\ announcements' = IF theme = currentTheme THEN announcements
                                                ELSE announceToScreenReader(theme)
    /\ announced' = announced + Len(announcements') - Len(announcements)

\* Mutant: a failed write aborts the apply before it changes anything.
applyTheme_AbortOnStoreFailure(theme, w) ==
    IF setItem(theme) = Throw
      THEN /\ warnings' = w + 1
           /\ UNCHANGED <<currentTheme, dataTheme, metaExists, metaCreated,
                          metaContent, storage, written, ariaLabel, events,
                          heard, announcements, announced>>
      ELSE /\ currentTheme' = theme
           /\ dataTheme' = theme
           /\ metaExists' = TRUE
           /\ metaCreated' = IF metaExists THEN metaCreated ELSE metaCreated + 1
           /\ metaContent' = metaColor(theme)
           /\ storage' = storeTheme(theme)
           /\ warnings' = w
           /\ written' = written \cup {theme}
           /\ ariaLabel' = updateToggleLabel(theme)
           /\ events' = Append(events, theme)
           /\ heard' = atDispatch(theme)
           /\ announcements' = announceToScreenReader(theme)
           /\ announced' = announced + Len(announcements') - Len(announcements)

\* applyTheme(theme, w): applyTheme(theme), after w warnings were logged earlier in the handler.
applyTheme(theme, w) ==
    /\ currentTheme' = theme
    /\ dataTheme' = theme
    /\ metaExists' = TRUE
    /\ metaCreated' = IF metaExists THEN metaCreated ELSE metaCreated + 1
    /\ metaContent' = metaColor(theme)
    /\ storage' = storeTheme(theme)
    /\ warnings' = w + storeWarns(theme)
    /\ written' = IF setItem(theme) = Throw THEN written ELSE written \cup {theme}
    /\ ariaLabel' = updateToggleLabel(theme)
    /\ events' = Append(events, theme)
    /\ heard' = atDispatch(theme)
    /\ announcements' = announceToScreenReader(theme)
    /\ announced' = announced + Len(announcements') - Len(announcements)

applyVars == <<currentTheme, dataTheme, metaExists, metaContent, metaCreated,
               storage, warnings, written, ariaLabel, events, heard,
               announcements, announced>>

\* new ThemeManager(): the constructor and init().
Construct ==
    /\ phase = "pre"
    /\ startStored' = storage
    /\ IF getStoredTheme = Throw
         THEN \* an exception escaping getStoredTheme() aborts the constructor
              /\ phase' = "crashed"
              /\ Record("construct", null, null)
              /\ UNCHANGED <<applyVars, mediaListener>>
         ELSE \* init(): the updateToggleLabel() that ends it repeats the one
              \* applyTheme made, with the same currentTheme
              /\ phase' = "run"
              /\ applyTheme(initialTheme, warnings + getStoredWarns)
              /\ mediaListener' = hasMatchMedia
              /\ Record("construct", null, initialTheme)
    /\ UNCHANGED <<envVars, appVars, navVars, osDark, transform, timers, explicitChoice>>

\* toggleTheme(): apply the opposite theme and start the press animation.
toggleTheme ==
    /\ Len(events) < MaxEvents
    /\ hasToggle => timers < MaxTimers
    /\ applyTheme(newTheme, warnings)
    /\ transform' = IF hasToggle THEN "scale(0.95)" ELSE transform
    /\ timers' = IF hasToggle THEN timers + 1 ELSE timers
    /\ explicitChoice' = TRUE
    /\ UNCHANGED <<phase, envVars, appVars, navVars, osDark, mediaListener, startStored>>

\* The click listener of the toggle button.
Click ==
    /\ phase = "run"
    /\ hasToggle
    /\ toggleTheme
    /\ Record("click", null, newTheme)

\* The keydown listener of the toggle button.
KeyDown ==
    \E key \in Keys :
        /\ phase = "run"
        /\ hasToggle
        /\ IF key = "Enter" \/ key = " "
             THEN /\ toggleTheme
                  /\ Record("keydown", key, newTheme)
             ELSE /\ Record("keydown", key, null)
                  /\ UNCHANGED <<phase, envVars, appVars, navVars, osDark, mediaListener, startStored,
                                 applyVars, transform, timers, explicitChoice>>

\* themeManager.toggleTheme() called by other code.
ToggleCall ==
    /\ phase = "run"
    /\ toggleTheme
    /\ Record("toggle", null, newTheme)

\* Mutant: the argument is applied without the test for "dark" or "light".
setTheme_NoValidation ==
    \E theme \in SetThemeArgs :
        /\ phase = "run"
        /\ Len(events) < MaxEvents
        /\ applyTheme(theme, warnings)
        /\ explicitChoice' = TRUE
        /\ Record("setTheme", theme, theme)
        /\ UNCHANGED <<phase, envVars, appVars, navVars, osDark, mediaListener, startStored,
                       transform, timers>>

\* themeManager.setTheme(theme) called by other code.
setTheme ==
    \E theme \in SetThemeArgs :
        /\ phase = "run"
        /\ Len(events) < MaxEvents
        /\ IF theme = "dark" \/ theme = "light"
             THEN /\ applyTheme(theme, warnings)
                  /\ explicitChoice' = TRUE
                  /\ Record("setTheme", theme, theme)
             ELSE /\ Record("setTheme", theme, null)
                  /\ UNCHANGED <<applyVars, explicitChoice>>
        /\ UNCHANGED <<phase, envVars, appVars, navVars, osDark, mediaListener, startStored,
                       transform, timers>>

\* The operating system's colour scheme changes; the media query's change
\* listener runs if init() registered one.
SystemChange ==
    /\ phase = "run"
    /\ Len(events) < MaxEvents
    /\ osDark' = ~osDark
    /\ IF mediaListener /\ followsSystem
         THEN /\ applyTheme(IF osDark' THEN "dark" ELSE "light",
                            warnings + getStoredWarns)
              /\ Record("systemChange", IF osDark' THEN "dark" ELSE "light",
                        IF osDark' THEN "dark" ELSE "light")
         ELSE /\ Record("systemChange", IF osDark' THEN "dark" ELSE "light", null)
              /\ warnings' = warnings + (IF mediaListener THEN getStoredWarns ELSE 0)
              /\ UNCHANGED <<currentTheme, dataTheme, metaExists, metaContent,
                             metaCreated, storage, written, ariaLabel, events,
                             heard, announcements, announced>>
    /\ UNCHANGED <<phase, envVars, appVars, navVars, mediaListener, startStored, transform, timers,
                   explicitChoice>>

\* Mutant: the callback sets the aria-label attribute instead of the style.
TimerFire_SetsLabel ==
    /\ phase = "run"
    /\ timers > 0
    /\ ariaLabel' = "scale(1)"
    /\ timers' = timers - 1
    /\ Record("timer", null, null)
    /\ UNCHANGED <<phase, envVars, appVars, navVars, osDark, mediaListener, startStored, currentTheme,
                   dataTheme, metaExists, metaContent, metaCreated, storage, warnings,
                   written, events, explicitChoice, transform, heard,
                   announcements, announced>>

\* The 150 ms timeout of toggleTheme() fires.
TimerFire ==
    /\ phase = "run"
    /\ timers > 0
    /\ transform' = "scale(1)"
    /\ timers' = timers - 1
    /\ Record("timer", null, null)
    /\ UNCHANGED <<phase, envVars, appVars, navVars, osDark, mediaListener, startStored, applyVars,
                   explicitChoice>>

Next ==
    \/ Construct
    \/ Click
    \/ KeyDown
    \/ ToggleCall
    \/ setTheme
    \/ SystemChange
    \/ TimerFire

Spec == Init /\ [][Next]_vars

\* ------------------------------------------------------- PortfolioApp
\* Everything a PortfolioApp handler leaves alone.
themeVars ==
    <<phase, storage, storageAccess, osDark, hasMatchMedia, hasToggle,
      currentTheme, dataTheme, metaExists, metaContent, metaCreated, ariaLabel,
      transform, timers, mediaListener, events, warnings, heard, written,
      explicitChoice, startStored>>

\* The four init calls of onDOMLoaded(), in its order.
InitSteps ==
    <<"initAccessibility", "initPerformanceOptimizations", "initErrorHandling",
      "initAnalytics">>

\* Mutant: the loaded flag is never set.
onDOMLoaded_NoFlag ==
    /\ appSteps' = appSteps \o InitSteps
    /\ isLoaded' = isLoaded
    /\ domLoadedRuns' = domLoadedRuns + 1
    /\ appState' = "loaded"

\* onDOMLoaded(): the four init calls (initAccessibility registers the
\* themeChanged listener), then isLoaded = true.
onDOMLoaded ==
    /\ appSteps' = appSteps \o InitSteps
    /\ isLoaded' = TRUE
    /\ domLoadedRuns' = domLoadedRuns + 1
    /\ appState' = "loaded"

\* isAppLoaded()
isAppLoaded == isLoaded

\* main.js runs: new PortfolioApp() and its init().  While the document is
\* loading (the ThemeManager, built on DOMContentLoaded, does not exist yet)
\* init() waits for DOMContentLoaded; otherwise it calls onDOMLoaded() itself.
AppConstruct ==
    /\ appState = "none"
    /\ \E loading \in (IF phase = "pre" THEN BOOLEAN ELSE {FALSE}) :
          /\ IF loading
               THEN /\ appState' = "waiting"
                    /\ isLoaded' = FALSE
                    /\ UNCHANGED <<domLoadedRuns, appSteps>>
               ELSE onDOMLoaded
          /\ Record("appConstruct", IF loading THEN "loading" ELSE "interactive", null)
    /\ UNCHANGED <<themeVars, navVars, announcements, announced>>

\* The DOMContentLoaded listener init() registered: onDOMLoaded().
AppDOMLoaded ==
    /\ appState = "waiting"
    /\ onDOMLoaded
    /\ Record("domLoaded", null, null)
    /\ UNCHANGED <<themeVars, navVars, announcements, announced>>

\* The 1000 ms timeout of announceToScreenReader() fires: it removes the
\* element it was started for.  Equal delays fire in the order they were set.
AnnounceTimer ==
    /\ announcements # <<>>
    /\ announcements' = Tail(announcements)
    /\ Record("announceTimer", null, null)
    /\ UNCHANGED <<themeVars, navVars, appVars, announced>>

\* DOMContentLoaded is being dispatched: the ThemeManager's listener has
\* run and PortfolioApp's has not yet; no other event comes in between.
MidDispatch == appState = "waiting" /\ phase = "run"

\* A first visit to a page that loads both scripts, with writable storage
\* and a toggle.
InitApp ==
    /\ Init
    /\ storageAccess = "ok"
    /\ storage = null
    /\ hasMatchMedia
    /\ hasToggle
    /\ metaExists
    /\ ariaLabel = null

\* The handlers that run once the page is up: a click on the toggle, a
\* setTheme call, a change of the system's preference, the press timeout.
UserNext ==
    /\ ~MidDispatch
    /\ (Click \/ setTheme \/ SystemChange \/ TimerFire)

NextApp ==
    \/ AppConstruct
    \/ AppDOMLoaded
    \/ AnnounceTimer
    \/ Construct
    \/ UserNext

\* The browser fires every timeout it was given, and DOMContentLoaded once
\* the document is parsed.
SpecApp ==
    InitApp /\ [][NextApp]_vars /\ WF_vars(AnnounceTimer) /\ WF_vars(AppDOMLoaded)

\* ---------------------------------------------------- NavbarComponent
\* Everything a NavbarComponent handler leaves alone.
pageVars ==
    <<themeVars, appVars, announcements, announced, lastOp, prevOp, pre, pre2>>

\* The header's style.transform after updateHeader(), last being
\* this.lastScrollY: at or below the threshold it is not touched.
updateTransform(last) ==
    IF scrollY > scrollThreshold
      THEN IF scrollY > last /\ scrollY > HideAbove
             THEN "translateY(-100%)"
             ELSE "translateY(0)"
      ELSE headerTransform

\* updateHeader(), last being this.lastScrollY when it is called.
updateHeader(last) ==
    /\ scrolled' = (scrollY > ScrolledAbove)
    /\ headerTransform' = updateTransform(last)
    /\ lastScrollY' = scrollY
    /\ ticking' = FALSE

\* Mutant: a frame is requested for every scroll event.
requestTick_NoDebounce ==
    /\ frames' = frames + 1
    /\ ticking' = TRUE

\* requestTick(): request a frame for updateHeader unless one is pending.
requestTick ==
    IF ~ticking
      THEN /\ frames' = frames + 1
           /\ ticking' = TRUE
      ELSE UNCHANGED <<frames, ticking>>

\* document.querySelector('.nav__link[href="#id"]'): the first match.
queryNavLink(id) ==
    IF \E i \in 1..Len(navLinks) : href(navLinks[i]) = "#" \o id
      THEN navLinks[CHOOSE i \in 1..Len(navLinks) :
                      /\ href(navLinks[i]) = "#" \o id
                      /\ \A j \in 1..(i - 1) : href(navLinks[j]) # "#" \o id]
      ELSE null

\* Mutant: the active class is not removed from the other links.
observeEntry_KeepsOthers(entry, act) ==
    IF entry.isIntersecting /\ queryNavLink(entry.target) # null
      THEN act \cup {queryNavLink(entry.target)}
      ELSE act

\* The observer's callback for one entry, act being the links marked
\* active: an intersecting section clears them all and marks its own link.
observeEntry(entry, act) ==
    IF entry.isIntersecting
      THEN IF queryNavLink(entry.target) # null THEN {queryNavLink(entry.target)} ELSE {}
      ELSE act

\* entries.forEach(...) of the observer's callback.
RECURSIVE observeEntries(_, _)
observeEntries(entries, act) ==
    IF entries = <<>> THEN act
    ELSE observeEntries(Tail(entries), observeEntry(Head(entries), act))

EntryValues == [target : Sections, isIntersecting : BOOLEAN]

\* The section of the last intersecting entry of a callback, null if none.
lastIntersecting(entries) ==
    LET hits == {i \in 1..Len(entries) : entries[i].isIntersecting}
    IN  IF hits = {} THEN null
        ELSE entries[CHOOSE i \in hits : \A j \in hits : j <= i].target
EntryLists == UNION {[1..n -> EntryValues] : n \in 1..MaxEntries}

\* new NavbarComponent(): the constructor and init().  Without a header
\* init() returns at once; with one, initScrollEffects() registers
\* requestTick and calls updateHeader(), and initActiveNavigation() starts
\* the observer if there are sections.
NavConstruct ==
    /\ navPhase = "pre"
    /\ navPhase' = "run"
    /\ IF hasHeader
         THEN /\ scrollListeners' = scrollListeners \cup {"requestTick"}
              /\ updateHeader(scrollY)
              /\ observing' = hasSections
         ELSE /\ lastScrollY' = scrollY
              /\ UNCHANGED <<scrollListeners, scrolled, headerTransform, ticking,
                             observing>>
    /\ NavRecord("construct", null)
    /\ UNCHANGED <<pageVars, hasHeader, hasSections, scrollY, frames, active,
                   destroyed>>

\* The window is scrolled to y and the scroll event is dispatched.
Scroll ==
    \E y \in ScrollPositions \ {scrollY} :
        /\ navPhase = "run"
        /\ frames < MaxFrames
        /\ scrollY' = y
        /\ IF "requestTick" \in scrollListeners
             THEN requestTick
             ELSE UNCHANGED <<frames, ticking>>
        /\ NavRecord("scroll", y)
        /\ UNCHANGED <<pageVars, navPhase, hasHeader, hasSections, lastScrollY,
                       scrollListeners, scrolled, headerTransform, active,
                       observing, destroyed>>

\* An animation frame: the browser calls updateHeader.
Frame ==
    /\ frames > 0
    /\ frames' = frames - 1
    /\ updateHeader(lastScrollY)
    /\ NavRecord("frame", null)
    /\ UNCHANGED <<pageVars, navPhase, hasHeader, hasSections, scrollY,
                   scrollListeners, active, observing, destroyed>>

\* The IntersectionObserver reports entries.
Intersect ==
    \E entries \in EntryLists :
        /\ navPhase = "run"
        /\ observing
        /\ active' = observeEntries(entries, active)
        /\ NavRecord("intersect", lastIntersecting(entries))
        /\ UNCHANGED <<pageVars, navPhase, hasHeader, hasSections, scrollY,
                       lastScrollY, ticking, frames, scrollListeners, scrolled,
                       headerTransform, observing, destroyed>>

\* setActiveNavItem(sectionId)
setActiveNavItem ==
    \E sectionId \in Sections :
        /\ navPhase = "run"
        /\ active' = {l \in Links : href(l) = "#" \o sectionId}
        /\ NavRecord("setActiveNavItem", sectionId)
        /\ UNCHANGED <<pageVars, navPhase, hasHeader, hasSections, scrollY,
                       lastScrollY, ticking, frames, scrollListeners, scrolled,
                       headerTransform, observing, destroyed>>

\* destroy(): removeEventListener('scroll', this.updateHeader), and the
\* component has no property updateHeader.
destroy ==
    /\ navPhase = "run"
    /\ scrollListeners' = scrollListeners \ {undefined}
    /\ destroyed' = TRUE
    /\ NavRecord("destroy", null)
    /\ UNCHANGED <<pageVars, navPhase, hasHeader, hasSections, scrollY,
                   lastScrollY, ticking, frames, scrolled, headerTransform,
                   active, observing>>

\* A page with navbar.js, seen before the other scripts run.
InitNav ==
    /\ PageInit
    /\ storageAccess = "ok"
    /\ storage = null
    /\ ~osDark
    /\ hasMatchMedia
    /\ hasToggle
    /\ metaExists
    /\ ariaLabel = null
    /\ NavInit

\* The header's scroll effects.
NextNav ==
    \/ NavConstruct
    \/ Scroll
    \/ Frame
    \/ destroy

\* The browser runs every animation frame it was asked for.
SpecNav == InitNav /\ [][NextNav]_vars /\ WF_vars(Frame)

\* The highlighting of the nav links: the observer's callbacks stand for
\* the sections' movements.
NextLinks ==
    \/ NavConstruct
    \/ Intersect
    \/ setActiveNavItem

SpecLinks == InitNav /\ [][NextLinks]_vars

\* ============================================================= claims
Modes == {"light", "dark"}

\* The theme the operating system reports.
OsMode == IF osDark THEN "dark" ELSE "light"

Opposite(m) == IF m = "dark" THEN "light" ELSE "dark"

\* The last handler was a user's activation of the toggle control.
Activated(o) == o.op = "click" \/ (o.op = "keydown" /\ o.arg \in {"Enter", " "})

\* The last handler called toggleTheme().
Toggled(o) == Activated(o) \/ o.op = "toggle"

\* The document marker, chrome colour, label and stored value are those of v.
SameLook(v) ==
    /\ currentTheme = v.currentTheme
    /\ dataTheme = v.dataTheme
    /\ metaContent = v.metaContent
    /\ ariaLabel = v.ariaLabel
    /\ storage = v.storage

\* C1: when readable storage holds "light" or "dark", the manager's mode
\* right after construction is that stored value, whatever the operating
\* system prefers.
C1_StoredThemeWinsAtStartup ==
    (lastOp.op = "construct" /\ storageAccess # "denied" /\ startStored \in Modes)
        => (phase = "run" /\ currentTheme = startStored)

C1_Witness ==
    /\ lastOp.op = "construct"
    /\ storageAccess = "ok"
    /\ hasMatchMedia
    /\ startStored = "light"
    /\ osDark
    /\ currentTheme = "light"

\* C2: when storage holds no item at construction, the mode right after
\* construction is the theme the operating system reports, and the document
\* marker, the theme-color meta content and the toggle's aria-label are those
\* of that theme.
C2_AbsentResolvesToSystem ==
    (lastOp.op = "construct" /\ startStored = null /\ hasMatchMedia)
        => /\ phase = "run"
           /\ currentTheme = OsMode
           /\ dataTheme = OsMode
           /\ metaContent = (IF osDark THEN "#0f172a" ELSE "#ffffff")
           /\ hasToggle =>
                ariaLabel = (IF osDark THEN "Ativar modo claro" ELSE "Ativar modo escuro")

C2_Witness ==
    /\ lastOp.op = "construct"
    /\ startStored = null
    /\ hasMatchMedia
    /\ hasToggle
    /\ osDark
    /\ currentTheme = "dark"
    /\ metaContent = "#0f172a"
    /\ ariaLabel = "Ativar modo claro"

\* C3: when readable storage holds "light" or "dark", a change of the
\* operating system's preference leaves the mode, the document marker, the
\* chrome colour, the label and the stored value as they were and dispatches
\* no themeChanged event.
C3_SystemChangeIgnoredWhenStored ==
    (lastOp.op = "systemChange" /\ storageAccess # "denied" /\ pre.storage \in Modes)
        => (SameLook(pre) /\ Len(events) = pre.nEvents)

C3_Witness ==
    /\ lastOp.op = "systemChange"
    /\ mediaListener
    /\ storageAccess = "ok"
    /\ pre.storage = "dark"
    /\ pre.osDark
    /\ ~osDark
    /\ currentTheme = "dark"

\* C4: when storage held no item at construction and neither the toggle nor
\* setTheme has been used since, a change of the operating system's
\* preference to m, delivered to the registered listener, makes m the mode.
C4_SystemChangeFollowedWithoutChoice ==
    (lastOp.op = "systemChange" /\ mediaListener /\ startStored = null
        /\ ~explicitChoice)
        => currentTheme = lastOp.arg

\* C5: one activation of the toggle control (a click, or Enter or Space on
\* it) from mode m in {light, dark} makes the opposite of m the mode, leaves
\* writable storage holding it and dispatches exactly one themeChanged event,
\* whose detail.theme is the opposite of m.
C5_ActivationFlipsMode ==
    (Activated(lastOp) /\ pre.currentTheme \in Modes)
        => /\ currentTheme = Opposite(pre.currentTheme)
           /\ storageAccess = "ok" => storage = Opposite(pre.currentTheme)
           /\ Len(events) = pre.nEvents + 1
           /\ events[Len(events)] = Opposite(pre.currentTheme)

C5_Witness ==
    /\ lastOp.op = "keydown"
    /\ lastOp.arg = " "
    /\ storageAccess = "ok"
    /\ pre.currentTheme = "light"
    /\ pre.storage = "light"
    /\ currentTheme = "dark"
    /\ storage = "dark"
    /\ events[Len(events)] = "dark"

\* C6: two consecutive toggleTheme() calls, from any state the page can be
\* in, bring the mode, the document marker, the chrome colour, the label and
\* the stored value back to what they were before the first call.
C6_ToggleTwiceRestores ==
    (Toggled(lastOp) /\ Toggled(prevOp)) => SameLook(pre2)

\* C7: two applyTheme calls in a row with the same theme leave the mode, the
\* document marker, the chrome colour, the label and the stored value as the
\* first call left them, and the two calls dispatch exactly two themeChanged
\* events, both carrying that theme.
C7_ApplyIdempotent ==
    (lastOp.applied # null /\ prevOp.applied = lastOp.applied)
        => /\ SameLook(pre)
           /\ Len(events) = pre2.nEvents + 2
           /\ events[Len(events)] = lastOp.applied
           /\ events[Len(events) - 1] = lastOp.applied

C7_Witness ==
    /\ lastOp.op = "setTheme"
    /\ prevOp.op = "setTheme"
    /\ lastOp.applied = "dark"
    /\ prevOp.applied = "dark"
    /\ pre2.currentTheme = "light"
    /\ storageAccess = "ok"
    /\ storage = "dark"
    /\ Len(events) = pre2.nEvents + 2

\* C8: once the manager is constructed its mode is "light" or "dark",
\* whatever storage held at construction and whatever handlers ran since.
C8_ModeAlwaysValid ==
    phase = "run" => currentTheme \in Modes

\* C9: every value the program has stored under the key "theme" is "light"
\* or "dark".
C9_WritesAreModes ==
    written \subseteq Modes

\* C10: when every access to localStorage throws, getStoredTheme() yields
\* null instead of throwing, logs a warning, and construction completes with
\* the mode the system reports (light without matchMedia).
C10_ReadFailureFallsBackToSystem ==
    storageAccess = "denied"
        => /\ getStoredTheme = null
           /\ lastOp.op = "construct"
                => /\ phase = "run"
                   /\ currentTheme = (IF hasMatchMedia /\ osDark THEN "dark" ELSE "light")
                   /\ warnings >= 1

C10_Witness ==
    /\ storageAccess = "denied"
    /\ lastOp.op = "construct"
    /\ storage = "light"
    /\ hasMatchMedia
    /\ osDark
    /\ phase = "run"
    /\ currentTheme = "dark"

\* The label of the toggle for mode m, and the chrome colour for mode m.
LabelOf(m) == IF m = "dark" THEN "Ativar modo claro" ELSE "Ativar modo escuro"
ColorOf(m) == IF m = "dark" THEN "#0f172a" ELSE "#ffffff"

\* What the constructor resolves: a readable, non-empty stored item, else
\* the system's theme (light without matchMedia).
ResolvedAtStart ==
    IF storageAccess # "denied" /\ startStored # null /\ startStored # ""
      THEN startStored
      ELSE IF hasMatchMedia /\ osDark THEN "dark" ELSE "light"

\* C11: when localStorage refuses the write, applyTheme(mode) still makes
\* mode the current theme and the document marker, sets the chrome colour
\* and the label of mode and dispatches themeChanged with it; the stored
\* item stays as it was and a warning is logged; every later toggle still
\* flips the mode.
C11_WriteFailureNotSurfaced ==
    (storageAccess # "ok" /\ phase = "run" /\ lastOp.applied # null)
        => /\ currentTheme = lastOp.applied
           /\ dataTheme = lastOp.applied
           /\ lastOp.applied \in Modes => metaContent = ColorOf(lastOp.applied)
           /\ hasToggle => ariaLabel = LabelOf(lastOp.applied)
           /\ Len(events) = pre.nEvents + 1
           /\ events[Len(events)] = lastOp.applied
           /\ storage = pre.storage
           /\ warnings >= 1
           /\ Toggled(lastOp) => currentTheme = Opposite(pre.currentTheme)

C11_Witness ==
    /\ storageAccess = "readonly"
    /\ Toggled(lastOp)
    /\ Toggled(prevOp)
    /\ pre2.currentTheme = "light"
    /\ pre.currentTheme = "dark"
    /\ currentTheme = "light"
    /\ storage = null
    /\ events[Len(events)] = "light"

\* C12: without window.matchMedia, getSystemTheme() is "light" whatever the
\* system prefers, construction with no stored item (or an unreadable or
\* empty one) completes with mode light, no change listener is registered,
\* and a change of the system's preference changes nothing.
C12_NoMatchMediaMeansLight ==
    ~hasMatchMedia
        => /\ getSystemTheme = "light"
           /\ ~mediaListener
           /\ (lastOp.op = "construct"
                 /\ (startStored \in {null, ""} \/ storageAccess = "denied"))
                => (phase = "run" /\ currentTheme = "light" /\ dataTheme = "light")
           /\ lastOp.op = "systemChange"
                => (SameLook(pre) /\ Len(events) = pre.nEvents)

C12_Witness ==
    /\ ~hasMatchMedia
    /\ osDark
    /\ lastOp.op = "construct"
    /\ startStored = null
    /\ phase = "run"
    /\ currentTheme = "light"

\* C13: after every applyTheme(mode) the theme-color meta tag exists and its
\* content is #0f172a for dark and #ffffff for light and for any other
\* value of mode; the manager has created at most one such tag.
C13_ChromeColorOfMode ==
    (phase = "run" /\ lastOp.applied # null)
        => /\ metaExists
           /\ metaContent = ColorOf(lastOp.applied)
           /\ metaCreated <= 1

\* C14: between callbacks, when the toggle exists, its aria-label is the
\* one of the current mode: "Ativar modo claro" in dark mode, "Ativar modo
\* escuro" in light mode.
C14_LabelMatchesMode ==
    (phase = "run" /\ hasToggle /\ currentTheme \in Modes)
        => ariaLabel = LabelOf(currentTheme)

C14_Witness ==
    /\ phase = "run"
    /\ hasToggle
    /\ lastOp.op = "systemChange"
    /\ lastOp.applied = "dark"
    /\ pre.ariaLabel = "Ativar modo escuro"
    /\ ariaLabel = "Ativar modo claro"

\* C15: without a toggle element, construction completes and applies the
\* resolved mode (marker, chrome colour, writable storage, one themeChanged
\* event); no label is ever set and no press animation is ever started; a
\* toggleTheme() call still flips the mode and setTheme(light or dark) still
\* sets it.
C15_MissingToggleIsHarmless ==
    ~hasToggle
        => /\ ariaLabel = null
           /\ transform = null
           /\ timers = 0
           /\ lastOp.op = "construct"
                => /\ phase = "run"
                   /\ currentTheme = ResolvedAtStart
                   /\ dataTheme = ResolvedAtStart
                   /\ ResolvedAtStart \in Modes => metaContent = ColorOf(ResolvedAtStart)
                   /\ storageAccess = "ok" => storage = ResolvedAtStart
                   /\ events = <<ResolvedAtStart>>
           /\ lastOp.op = "toggle"
                => /\ currentTheme = Opposite(pre.currentTheme)
                   /\ dataTheme = currentTheme
                   /\ Len(events) = pre.nEvents + 1
           /\ (lastOp.op = "setTheme" /\ lastOp.arg \in Modes)
                => (currentTheme = lastOp.arg /\ dataTheme = lastOp.arg)

C15_Witness ==
    /\ ~hasToggle
    /\ lastOp.op = "toggle"
    /\ prevOp.op = "construct"
    /\ pre.currentTheme = "light"
    /\ currentTheme = "dark"
    /\ storage = "dark"
    /\ ariaLabel = null
    /\ timers = 0

\* C16: once localStorage holds an item under "theme", no handler removes
\* it: in every step, an item present before is present after.
C16_StoredNeverDeleted ==
    [][storage # null => storage' # null]_vars

C16_Witness ==
    /\ startStored = null
    /\ storage # null
    /\ lastOp.op = "timer"
    /\ Len(events) >= 3

\* C17: the callback of the press-animation timeout changes neither the
\* mode, the document marker, the chrome colour, the label nor the stored
\* value and dispatches no event, whatever ran between the toggle and it and
\* however many such timeouts are pending.
C17_TimerChangesNothing ==
    lastOp.op = "timer" => (SameLook(pre) /\ Len(events) = pre.nEvents)

C17_Witness ==
    /\ lastOp.op = "timer"
    /\ prevOp.op = "setTheme"
    /\ prevOp.applied = "light"
    /\ timers = 1
    /\ currentTheme = "light"
    /\ transform = "scale(1)"

\* C20: between callbacks, once the manager is constructed, the document
\* marker is the current mode and, when localStorage reads and writes, so is
\* the stored item (so an item exists from the end of construction on).
C20_MarkerAndStoreFollowMode ==
    phase = "run"
        => /\ dataTheme = currentTheme
           /\ storageAccess = "ok" => storage = currentTheme

C20_Witness ==
    /\ phase = "run"
    /\ lastOp.op = "construct"
    /\ storageAccess = "ok"
    /\ startStored = null
    /\ storage = "dark"
    /\ currentTheme = "dark"
    /\ dataTheme = "dark"

\* C19: when a themeChanged listener runs, the manager's mode, the document
\* marker, the chrome colour, the stored item (when storage is writable) and
\* the label (when the toggle exists) are already those of the event's
\* detail.theme.
C19_EventDispatchedLast ==
    heard # NoEvent
        => /\ heard.currentTheme = heard.theme
           /\ heard.dataTheme = heard.theme
           /\ heard.theme \in Modes => heard.metaContent = ColorOf(heard.theme)
           /\ storageAccess = "ok" => heard.storage = heard.theme
           /\ hasToggle => heard.ariaLabel = LabelOf(heard.theme)

C19_Witness ==
    /\ Toggled(lastOp)
    /\ hasToggle
    /\ storageAccess = "ok"
    /\ pre.currentTheme = "light"
    /\ pre.storage = "light"
    /\ heard.theme = "dark"
    /\ heard.storage = "dark"
    /\ heard.ariaLabel = "Ativar modo claro"

\* The announcement numbered i is in document.body.
Pending(i) == \E k \in 1..Len(announcements) : announcements[k].id = i

\* Every applyTheme after PortfolioApp loaded appended exactly one
\* announcement, the newest, naming the applied mode.
C18_OnePerEvent ==
    (lastOp.applied # null /\ pre.appLoaded)
        => /\ announced = pre.nAnnounced + 1
           /\ Len(announcements) = pre.nPending + 1
           /\ announcements[Len(announcements)].id = announced
           /\ announcements[Len(announcements)].text =
                (IF lastOp.applied = "dark" THEN "Tema alterado para modo escuro"
                                            ELSE "Tema alterado para modo claro")

\* C18: once PortfolioApp is loaded, each themeChanged event appends exactly
\* one aria-live announcement naming the event's mode (escuro for dark, claro
\* otherwise), and every announcement appended is eventually removed again,
\* also when several are pending at once.
C18_AnnouncerConsumesEvents ==
    /\ []C18_OnePerEvent
    /\ \A i \in 1..MaxEvents : Pending(i) ~> ~Pending(i)

C18_Witness ==
    /\ appState = "loaded"
    /\ lastOp.op = "announceTimer"
    /\ prevOp.applied = "dark"
    /\ announced = 2
    /\ Len(announcements) = 1
    /\ announcements[1].id = 2
    /\ announcements[1].text = "Tema alterado para modo escuro"

\* C21: setTheme(x) with x neither "light" nor "dark" changes neither the
\* mode, the document marker, the chrome colour, the label nor the stored
\* value and dispatches no event; setTheme("light") and setTheme("dark") do
\* what applyTheme does: x becomes the mode and the marker, the chrome colour
\* and the label are those of x, writable storage holds x, and one
\* themeChanged event carrying x is dispatched.
C21_SetThemeValidates ==
    lastOp.op = "setTheme"
        => IF lastOp.arg \in Modes
             THEN /\ lastOp.applied = lastOp.arg
                  /\ currentTheme = lastOp.arg
                  /\ dataTheme = lastOp.arg
                  /\ metaContent = ColorOf(lastOp.arg)
                  /\ hasToggle => ariaLabel = LabelOf(lastOp.arg)
                  /\ storage = (IF storageAccess = "ok" THEN lastOp.arg ELSE pre.storage)
                  /\ Len(events) = pre.nEvents + 1
                  /\ events[Len(events)] = lastOp.arg
             ELSE /\ SameLook(pre)
                  /\ Len(events) = pre.nEvents

C21_Witness ==
    /\ lastOp.op = "setTheme"
    /\ lastOp.arg = "blue"
    /\ prevOp.op = "setTheme"
    /\ prevOp.arg = "dark"
    /\ pre2.currentTheme = "light"
    /\ currentTheme = "dark"
    /\ storage = "dark"

\* Between callbacks: onDOMLoaded() has run at most once, and isAppLoaded()
\* is true exactly when it has run, all four init steps done in order.
C22_LoadedOnce ==
    /\ domLoadedRuns <= 1
    /\ isAppLoaded <=> domLoadedRuns = 1
    /\ isAppLoaded <=> appState = "loaded"
    /\ isAppLoaded => appSteps = <<"initAccessibility", "initPerformanceOptimizations",
                                   "initErrorHandling", "initAnalytics">>
    /\ ~isAppLoaded => appSteps = <<>>

\* C22: whether PortfolioApp is constructed while the document is loading
\* or after, onDOMLoaded() runs exactly once: at construction when the
\* document is past loading, else when DOMContentLoaded fires, which it
\* does.  isAppLoaded() is false until onDOMLoaded() has made its four init
\* calls and is true in every later state.
C22_AppLoadsExactlyOnce ==
    /\ []C22_LoadedOnce
    /\ [][isAppLoaded => isAppLoaded']_vars
    /\ (appState = "waiting") ~> isAppLoaded

C22_Witness ==
    /\ lastOp.op = "domLoaded"
    /\ prevOp.op = "construct"
    /\ pre2.appLoaded = FALSE
    /\ phase = "run"
    /\ isAppLoaded
    /\ domLoadedRuns = 1


\* C23: at most one updateHeader frame callback is pending at any time,
\* the ticking flag saying whether one is; every scroll event that arrives
\* while none is pending schedules exactly one, and one that arrives while
\* one is pending schedules none; and a scroll position that has not been
\* processed is eventually processed, frames firing.
C23_OnePending ==
    /\ frames <= 1
    /\ ticking <=> frames = 1

C23_ScrollSchedules ==
    (navLast.op = "scroll" /\ "requestTick" \in scrollListeners) => frames = 1

C23_Processed == IF navPhase = "run" THEN scrollY = lastScrollY ELSE FALSE

C23_Unprocessed ==
    IF navPhase = "run" /\ hasHeader THEN scrollY # lastScrollY ELSE FALSE

C23_ScrollDebounced ==
    /\ []C23_OnePending
    /\ []C23_ScrollSchedules
    /\ C23_Unprocessed ~> C23_Processed

\* A scroll event arrived while a frame was pending, and one frame is
\* still pending for a position that is not processed yet.
C23_Witness ==
    /\ navLast.op = "scroll"
    /\ navPre.frames = 1
    /\ navPre.ticking
    /\ frames = 1
    /\ scrollY # lastScrollY
    /\ scrollY # navPre.scrollY

\* C24: after a header update in which the scroll position did not increase
\* relative to the previously processed one, the header is not hidden; and
\* the header is never hidden while the processed position is at or below
\* the threshold.  (Violated: the update leaves the transform alone at or
\* below the threshold, so a header hidden further down stays hidden.)
C24_Updated == navLast.op \in {"frame", "construct"} /\ hasHeader

C24_ShownWhenScrollingUp ==
    /\ (C24_Updated /\ navLast.op = "frame" /\ scrollY <= navPre.lastScrollY)
           => headerTransform # "translateY(-100%)"
    /\ (C24_Updated /\ lastScrollY <= scrollThreshold)
           => headerTransform # "translateY(-100%)"

\* C24 as the code has it: above the threshold an update that saw no
\* increase shows the header.
C24_ShownAboveThreshold ==
    (C24_Updated /\ navLast.op = "frame" /\ scrollY <= navPre.lastScrollY
         /\ scrollY > scrollThreshold)
        => headerTransform = "translateY(0)"

\* C25: no two nav links carry the 'active' class; an intersecting section
\* or a setActiveNavItem call leaves exactly the link of that section
\* marked, if it has one; and a callback in which no section intersects
\* leaves the marks alone.
C25_Matching(id) == {l \in Links : href(l) = "#" \o id}

C25_AtMostOneActive ==
    /\ Cardinality(active) <= 1
    /\ (navLast.op \in {"intersect", "setActiveNavItem"} /\ navLast.arg # null)
           => active = C25_Matching(navLast.arg)
    /\ (navLast.op = "intersect" /\ navLast.arg = null)
           => active = navPre.active

\* A callback moved the mark from one link to another.
C25_Witness ==
    /\ navLast.op = "intersect"
    /\ navLast.arg # null
    /\ navPre.active # {}
    /\ active # {}
    /\ active # navPre.active

C25_MarkKept ==
    /\ navLast.op = "intersect"
    /\ navLast.arg = null
    /\ active # {}

\* C26: after destroy() a scroll event schedules no updateHeader, and the
\* header's 'scrolled' class and transform no longer change.  (Violated:
\* destroy() removes this.updateHeader, which is undefined, and requestTick
\* stays registered.)
C26_DestroyStopsScrollEffects ==
    /\ destroyed => "requestTick" \notin scrollListeners
    /\ (destroyed /\ navLast.op = "scroll") => frames = navPre.frames
    /\ (destroyed /\ navLast.op = "frame")
           => /\ scrolled = navPre.scrolled
              /\ headerTransform = navPre.headerTransform

====
